---- MODULE Spec2Model ----
(***************************************************************************)
(* SmartBFSAsyncCrawler (smart_fast_crawler.py): a depth-bounded,          *)
(* round-based breadth-first crawl of one site.                            *)
(*                                                                         *)
(* A URL string is modelled by the parts the code inspects:                *)
(*   netloc : the network location ("" for a string with no scheme/host,   *)
(*            "[" for a location urlsplit rejects as an invalid IPv6 URL)  *)
(*   path   : the page name ("" is the site root)                          *)
(*   ext    : the file extension of the last path segment, as written      *)
(*   slash  : the string ends in "/" (before any fragment)                 *)
(*   frag   : the string carries a "#fragment"                             *)
(* Each task step runs from one suspension point to the next, as the       *)
(* asyncio event loop runs it.                                             *)
(***************************************************************************)
EXTENDS Integers, Sequences, FiniteSets, TLC

VARIABLES
    cfg,            \* constructor arguments and the site the crawl meets
    base_url, base_domain, max_tasks, max_depth, sem,
    robots_loaded, sitemap_loaded,
    urls_to_visit,  \* the frontier: FIFO of <<url, depth>>
    visited_urls, result_urls,
    sitemap_urls,   \* local of crawl(): what parse_sitemap returned
    units,          \* every handle_url task created so far; html: fetch returned content
    round,          \* number of rounds that dequeued a batch
    pc              \* position of crawl()

vars == <<cfg, base_url, base_domain, max_tasks, max_depth, sem,
          robots_loaded, sitemap_loaded, urls_to_visit, visited_urls,
          result_urls, sitemap_urls, units, round, pc>>

\* ------------------------------------------------------------------ bounds
MaxTasksBound == 2
MaxDepthBound == 2

\* -------------------------------------------------------------------- URLs
BaseHost == "example.test"
OtherHost == "other.test"

U(netloc, path, ext, slash, frag) ==
    [netloc |-> netloc, path |-> path, ext |-> ext, slash |-> slash, frag |-> frag]

Page(path) == U(BaseHost, path, "", FALSE, FALSE)      \* https://example.test/<path>
Rel(path) == U("", path, "", FALSE, FALSE)             \* href="/<path>"
HomeSlash == U(BaseHost, "", "", TRUE, FALSE)          \* https://example.test/
HomeNoSlash == U(BaseHost, "", "", FALSE, FALSE)       \* https://example.test
External == U(OtherHost, "x", "", FALSE, FALSE)        \* https://other.test/x
NotAUrl == U("", "junk", "", FALSE, FALSE)             \* junk
BadHref == U("[", "", "", FALSE, FALSE)                \* http://[

Lower(ext) == IF ext = ".PNG" THEN ".png" ELSE ext

irrelevant_exts ==
    {".jpg", ".jpeg", ".png", ".gif", ".css", ".js", ".ico", ".svg", ".woff",
     ".ttf", ".otf", ".eot", ".pdf", ".zip", ".txt", ".xml", ".mp4", ".webm",
     ".avi", ".mp3", ".json"}

\* str.endswith on the whole string: a trailing "/" or "#fragment" hides the extension
EndsWithExt(url) ==
    /\ ~url.slash
    /\ ~url.frag
    /\ Lower(url.ext) \in irrelevant_exts

is_valid_url_any(url) == TRUE

is_valid_url(url) == ~EndsWithExt(url)

is_internal_anyhost(url) == TRUE

is_internal(url) == url.netloc = "" \/ url.netloc = base_domain

\* urljoin(base, href) for an absolute or a root-relative href
urljoin(base, href) ==
    IF href.netloc = "" THEN [href EXCEPT !.netloc = base.netloc] ELSE href

\* urlsplit raises ValueError("Invalid IPv6 URL")
Malformed(href) == href.netloc = "["

\* .split("#")[0].rstrip("/")
Normalize(url) == [url EXCEPT !.frag = FALSE, !.slash = FALSE]

\* a base URL that is a well-formed absolute URL
WellFormed(url) == url.netloc \notin {"", "["}

\* RobotFileParser.can_fetch("*", url): rules match on the path
RobotsDisallows(url) == cfg.robots.ok /\ url.path \in cfg.robots.disallow

can_fetch(url) ==
    IF ~robots_loaded THEN TRUE ELSE ~RobotsDisallows(url)

\* ------------------------------------------------------------ environment
\* page name -> the hrefs of its anchors; a name outside the domain is a 404
Scenario ==
    [p \in {"", "a", "b"} |->
        IF p = "" THEN {Rel("a"), Rel("b"), External} ELSE {}]

Rich ==
    [p \in {"", "a", "b", "c", "private"} |->
        CASE p = "" -> {Rel("a"), U("", "b", "", TRUE, FALSE), Rel("private"),
                        U("", "logo", ".png", FALSE, FALSE), External}
          [] p = "a" -> {Rel("c"), U("", "", "", TRUE, FALSE), U("", "b", "", FALSE, TRUE)}
          [] p = "b" -> {Rel("c")}
          [] p = "c" -> {Rel("a")}
          [] OTHER -> {Rel("c")}]

Broken ==
    [p \in {"", "a", "b", "c"} |->
        CASE p = "" -> {Rel("a"), Rel("b")}
          [] p = "a" -> {BadHref, Rel("c")}
          [] p = "b" -> {Rel("c")}
          [] OTHER -> {}]

\* two seeds with children of their own and a page (/e) linked from two depths
Layered ==
    [p \in {"a", "b", "c", "d", "e", "f", "g", "h"} |->
        CASE p = "a" -> {Rel("d"), Rel("g")}
          [] p = "c" -> {Rel("e"), Rel("h")}
          [] p = "d" -> {Rel("e")}
          [] p = "e" -> {Rel("f")}
          [] OTHER -> {}]

Sites == {Scenario, Rich, Broken, Layered}

RobotsFiles ==
    {[ok |-> FALSE, disallow |-> {}],
     [ok |-> TRUE, disallow |-> {}],
     [ok |-> TRUE, disallow |-> {"private"}]}

Loc(url) == [has_text |-> TRUE, url |-> url]
EmptyLoc == [has_text |-> FALSE, url |-> NotAUrl]      \* <loc/>: loc.text is None

Sitemaps ==
    {[status |-> 500, wellformed |-> TRUE, locs |-> <<>>],
     [status |-> 200, wellformed |-> FALSE, locs |-> <<>>],
     [status |-> 200, wellformed |-> TRUE, locs |-> <<>>],
     [status |-> 200, wellformed |-> TRUE, locs |-> <<Loc(Page("a")), Loc(Page("b")), Loc(Page("c"))>>],
     [status |-> 200, wellformed |-> TRUE, locs |-> <<Loc(Page("a")), EmptyLoc, Loc(Page("b"))>>],
     [status |-> 200, wellformed |-> TRUE,
      locs |-> <<Loc(External), Loc(U(BaseHost, "logo", ".PNG", FALSE, FALSE))>>],
     [status |-> 200, wellformed |-> TRUE,
      locs |-> <<Loc(Page("private")), Loc(External), Loc(HomeSlash), Loc(Rel("a"))>>]}

BaseUrls == {HomeSlash, HomeNoSlash, NotAUrl}

\* ---------------------------------------------------------------- helpers
Min(a, b) == IF a < b THEN a ELSE b

Range(s) == {s[i] : i \in 1..Len(s)}

\* every order in which a Python set can be iterated
Perms(S) ==
    {s \in [1..Cardinality(S) -> S] : \A i, j \in 1..Cardinality(S) : i # j => s[i] # s[j]}

\* ------------------------------------------------------------ constructor
NewCrawler_swapped(url, tasks, depth) ==
    [base_url |-> IF url.slash THEN url ELSE [url EXCEPT !.slash = TRUE],
     base_domain |-> url.netloc,
     max_tasks |-> depth,
     max_depth |-> tasks,
     sem |-> depth]

NewCrawler(url, tasks, depth) ==
    [base_url |-> IF url.slash THEN url ELSE [url EXCEPT !.slash = TRUE],
     base_domain |-> url.netloc,
     max_tasks |-> tasks,
     max_depth |-> depth,
     sem |-> tasks]

Init ==
    /\ cfg \in [base_url : BaseUrls, max_tasks : 0..MaxTasksBound,
                max_depth : -1..MaxDepthBound, site : Sites,
                robots : RobotsFiles, sitemap : Sitemaps]
    \* nothing is served for a base URL without a host
    /\ ~WellFormed(cfg.base_url) =>
         /\ ~cfg.robots.ok
         /\ cfg.sitemap.status = 500
         /\ cfg.site = Scenario
    /\ LET c == NewCrawler(cfg.base_url, cfg.max_tasks, cfg.max_depth) IN
         /\ base_url = c.base_url
         /\ base_domain = c.base_domain
         /\ max_tasks = c.max_tasks
         /\ max_depth = c.max_depth
         /\ sem = c.sem
    /\ robots_loaded = FALSE
    /\ sitemap_loaded = FALSE
    /\ urls_to_visit = <<>>
    /\ visited_urls = {}
    /\ result_urls = <<>>
    /\ sitemap_urls = {}
    /\ units = <<>>
    /\ round = 0
    /\ pc = "new"

\* ----------------------------------------------------------- parse_sitemap
RECURSIVE ParseLocs(_, _, _)
\* the loop over the <loc> entries; an entry without text raises out of it
ParseLocs(locs, i, urls) ==
    IF i > Len(locs) THEN [urls |-> urls, sitemap_loaded |-> TRUE]
    ELSE IF ~locs[i].has_text THEN [urls |-> urls, sitemap_loaded |-> FALSE]
    ELSE LET url == locs[i].url IN
         ParseLocs(locs, i + 1,
                   IF is_internal(url) /\ is_valid_url(url) THEN urls \cup {url} ELSE urls)

parse_sitemap(response) ==
    IF response.status # 200 \/ ~response.wellformed
    THEN [urls |-> {}, sitemap_loaded |-> FALSE]
    ELSE ParseLocs(response.locs, 1, {})

\* ------------------------------------------------------------------- crawl
SeedSet_loaded_only(loaded, urls) ==
    IF loaded THEN urls ELSE {base_url}

\* the URLs crawl() puts on the frontier at depth 0
SeedSet(loaded, urls) ==
    IF loaded /\ urls # {} THEN urls ELSE {base_url}

\* crawl() up to its first suspension: robots.txt is read synchronously,
\* then the sitemap request is sent
CrawlStart ==
    /\ pc = "new"
    /\ robots_loaded' = cfg.robots.ok
    /\ pc' = "sitemap"
    /\ UNCHANGED <<cfg, base_url, base_domain, max_tasks, max_depth, sem,
                   sitemap_loaded, urls_to_visit, visited_urls, result_urls,
                   sitemap_urls, units, round>>

\* the sitemap response arrives: parse_sitemap returns and the frontier is seeded
SitemapDone ==
    /\ pc = "sitemap"
    /\ LET r == parse_sitemap(cfg.sitemap) IN
         /\ sitemap_loaded' = r.sitemap_loaded
         /\ sitemap_urls' = r.urls
         /\ \E order \in Perms(SeedSet(r.sitemap_loaded, r.urls)) :
              urls_to_visit' = [k \in 1..Len(order) |-> <<order[k], 0>>]
    /\ pc' = "round"
    /\ UNCHANGED <<cfg, base_url, base_domain, max_tasks, max_depth, sem,
                   robots_loaded, visited_urls, result_urls, units, round>>

ShouldDispatch_no_depth(url, depth) == url \notin visited_urls

ShouldDispatch_no_visited(url, depth) == depth <= max_depth

\* the filter of the dispatch loop
ShouldDispatch(url, depth) == url \notin visited_urls /\ depth <= max_depth

RECURSIVE Dispatched(_, _)
Dispatched(s, n) ==
    IF n = 0 THEN <<>>
    ELSE IF ShouldDispatch(s[n][1], s[n][2])
         THEN Append(Dispatched(s, n - 1), s[n])
         ELSE Dispatched(s, n - 1)

BatchSize_whole_frontier(frontier) == Len(frontier)

\* range(min(self.max_tasks, self.urls_to_visit.qsize())): how many entries a round dequeues
BatchSize(frontier) ==
    LET n == Min(max_tasks, Len(frontier)) IN IF n > 0 THEN n ELSE 0

AfterRound_stop_when_filtered(tasks) == IF tasks # <<>> THEN "gather" ELSE "done"

\* "if tasks: await gather", else straight back to the while condition
AfterRound(tasks) == IF tasks # <<>> THEN "gather" ELSE "round"

\* one iteration of the while loop up to gather: no step of it suspends, so
\* no task starts (and visited_urls does not change) while the batch is filtered
Round ==
    /\ pc = "round"
    /\ urls_to_visit # <<>>
    /\ LET taken == BatchSize(urls_to_visit)
           tasks == Dispatched(urls_to_visit, taken)
       IN
         /\ urls_to_visit' = SubSeq(urls_to_visit, taken + 1, Len(urls_to_visit))
         /\ round' = IF taken > 0 THEN round + 1 ELSE round
         /\ units' = units \o [k \in 1..Len(tasks) |->
                                 [url |-> tasks[k][1], depth |-> tasks[k][2],
                                  round |-> round + 1, st |-> "created",
                                  html |-> FALSE]]
         /\ pc' = AfterRound(tasks)
    /\ UNCHANGED <<cfg, base_url, base_domain, max_tasks, max_depth, sem,
                   robots_loaded, sitemap_loaded, visited_urls, result_urls,
                   sitemap_urls>>

\* handle_url up to the request inside fetch: tasks start in creation order;
\* acquiring a free semaphore does not suspend
UnitBegin(i) ==
    /\ units[i].st = "created"
    /\ \A j \in 1..(i - 1) : units[j].st # "created"
    /\ sem > 0
    /\ visited_urls' = visited_urls \cup {units[i].url}
    /\ sem' = sem - 1
    /\ units' = [units EXCEPT ![i].st = "fetching"]
    /\ UNCHANGED <<cfg, base_url, base_domain, max_tasks, max_depth,
                   robots_loaded, sitemap_loaded, urls_to_visit, result_urls,
                   sitemap_urls, round, pc>>

\* the server answers this URL with a body: the other host answers everything,
\* the base host its pages and its files
Served(url) ==
    \/ url.netloc = OtherHost
    \/ /\ url.netloc = BaseHost
       /\ (url.path \in DOMAIN cfg.site \/ url.ext # "")

\* the href attributes of the anchors in the body
Anchors(url) ==
    IF url.netloc = BaseHost /\ url.ext = "" /\ url.path \in DOMAIN cfg.site
    THEN cfg.site[url.path] ELSE {}

\* parse_links for a page whose anchors all resolve
parse_links(hrefs, page_url) ==
    {l \in {Normalize(urljoin(page_url, h)) : h \in hrefs} :
        is_internal(l) /\ is_valid_url(l) /\ can_fetch(l)}

ExpandedAnchors_without_content(html, url, depth) ==
    IF depth < max_depth THEN Anchors(url) ELSE {}

\* "if html: ... if depth < self.max_depth": the anchors handle_url goes on to resolve
ExpandedAnchors(html, url, depth) ==
    IF html /\ depth < max_depth THEN Anchors(url) ELSE {}

\* the response of unit i arrives; the rest of handle_url runs without suspending
UnitFinish(i) ==
    /\ units[i].st = "fetching"
    /\ \A j \in 1..Len(units) : units[j].st # "created"
    /\ sem' = sem + 1
    /\ \E html \in (IF Served(units[i].url) THEN BOOLEAN ELSE {FALSE}) :
         LET url == units[i].url
             depth == units[i].depth
             hrefs == ExpandedAnchors(html, url, depth)
         IN
           /\ result_urls' = IF html THEN Append(result_urls, url) ELSE result_urls
           /\ IF \E h \in hrefs : Malformed(h)
              THEN /\ units' = [units EXCEPT ![i].st = "raised", ![i].html = html]
                   /\ UNCHANGED urls_to_visit
              ELSE /\ units' = [units EXCEPT ![i].st = "done", ![i].html = html]
                   /\ \E order \in Perms({l \in parse_links(hrefs, url) : l \notin visited_urls}) :
                        urls_to_visit' = urls_to_visit \o
                            [k \in 1..Len(order) |-> <<order[k], depth + 1>>]
    /\ UNCHANGED <<cfg, base_url, base_domain, max_tasks, max_depth,
                   robots_loaded, sitemap_loaded, visited_urls,
                   sitemap_urls, round, pc>>

AllComplete_first_completed == \E j \in 1..Len(units) : units[j].st = "done"

\* await asyncio.gather(*tasks): every task created so far has returned
AllComplete == \A j \in 1..Len(units) : units[j].st = "done"

\* gather returns: every task of the round has completed
GatherDone ==
    /\ pc = "gather"
    /\ AllComplete
    /\ pc' = "round"
    /\ UNCHANGED <<cfg, base_url, base_domain, max_tasks, max_depth, sem,
                   robots_loaded, sitemap_loaded, urls_to_visit, visited_urls,
                   result_urls, sitemap_urls, units, round>>

\* gather re-raises the exception of a task: crawl() and run() raise, and
\* asyncio.run cancels the tasks still pending
GatherRaise ==
    /\ pc = "gather"
    /\ \E j \in 1..Len(units) : units[j].st = "raised"
    /\ pc' = "error"
    /\ units' = [j \in 1..Len(units) |->
                   IF units[j].st \in {"created", "fetching"}
                   THEN [units[j] EXCEPT !.st = "cancelled"] ELSE units[j]]
    /\ sem' = sem + Cardinality({j \in 1..Len(units) : units[j].st = "fetching"})
    /\ UNCHANGED <<cfg, base_url, base_domain, max_tasks, max_depth,
                   robots_loaded, sitemap_loaded, urls_to_visit, visited_urls,
                   result_urls, sitemap_urls, round>>

\* the while condition fails: crawl() returns and run() returns result_urls
LoopExit ==
    /\ pc = "round"
    /\ urls_to_visit = <<>>
    /\ pc' = "done"
    /\ UNCHANGED <<cfg, base_url, base_domain, max_tasks, max_depth, sem,
                   robots_loaded, sitemap_loaded, urls_to_visit, visited_urls,
                   result_urls, sitemap_urls, units, round>>

Next ==
    \/ CrawlStart
    \/ SitemapDone
    \/ Round
    \/ \E i \in 1..Len(units) : UnitBegin(i)
    \/ \E i \in 1..Len(units) : UnitFinish(i)
    \/ GatherDone
    \/ GatherRaise
    \/ LoopExit

Spec == Init /\ [][Next]_vars

\* ------------------------------------------------------------ properties
InFlight == {i \in 1..Len(units) : units[i].st = "fetching"}

Results == Range(result_urls)

\* the state right after seeding, before the first round
Seeded == pc = "round" /\ round = 0

\* C1: no URL occurs more than once in result_urls.
C1_NoDuplicateResults ==
    \A i, j \in 1..Len(result_urls) : i # j => result_urls[i] # result_urls[j]

\* C2: every unit dispatched has a depth d with 0 <= d <= max_depth.
C2_DispatchedDepthInBounds ==
    \A i \in 1..Len(units) : 0 <= units[i].depth /\ units[i].depth <= max_depth

C2_Witness ==
    \E i \in 1..Len(units) :
        /\ max_depth > 0
        /\ units[i].depth = max_depth
        /\ units[i].st = "done"
        /\ units[i].url \in Results

\* C3: with the robots policy loaded, no URL the policy disallows is in the
\* result list, however the URL reached the frontier.
C3_NoDisallowedResult ==
    robots_loaded => \A url \in Results : ~RobotsDisallows(url)

\* C4: when parse_sitemap returned a non-empty set, the initial frontier is
\* exactly that set, every entry at depth 0.
C4_SitemapSeedsFrontier ==
    (Seeded /\ sitemap_urls # {}) =>
        /\ Range(urls_to_visit) = {<<url, 0>> : url \in sitemap_urls}
        /\ Len(urls_to_visit) = Cardinality(sitemap_urls)

\* C5: when parse_sitemap returned nothing, the crawl goes on and the initial
\* frontier is the single entry (base_url, 0).
C5_EmptySitemapSeedsBase ==
    (pc \notin {"new", "sitemap"} /\ round = 0 /\ sitemap_urls = {}) =>
        /\ pc = "round"
        /\ urls_to_visit = << <<base_url, 0>> >>

C5_Witness ==
    /\ Seeded
    /\ sitemap_urls = {}
    /\ cfg.sitemap.status = 200
    /\ cfg.sitemap.locs # <<>>
    /\ urls_to_visit = << <<base_url, 0>> >>

\* C6: the number of fetches in flight never exceeds the max_tasks the
\* crawler was constructed with.
C6_InFlightBounded == Cardinality(InFlight) <= cfg.max_tasks

C6_Witness ==
    /\ cfg.max_tasks >= 2
    /\ Cardinality(InFlight) = cfg.max_tasks
    /\ urls_to_visit # <<>>

\* C7: with max_tasks >= 1, when the crawl has ended every frontier entry of
\* depth <= max_depth has been dispatched and every dispatched unit has
\* completed its fetch.
C7_NoEntryStarved ==
    (pc \in {"done", "error"} /\ max_tasks >= 1) =>
        /\ \A k \in 1..Len(urls_to_visit) :
              urls_to_visit[k][2] <= max_depth => urls_to_visit[k][1] \in visited_urls
        /\ \A i \in 1..Len(units) : units[i].st # "cancelled"

\* C8: homepage seed https://example.test/, max_depth = 1, links /a, /b and
\* one external link, every fetch returning content: the result set is
\* {https://example.test, https://example.test/a, https://example.test/b}.
C8_ScenarioResult ==
    (/\ pc = "done"
     /\ cfg.site = Scenario
     /\ cfg.base_url = HomeSlash
     /\ cfg.max_depth = 1
     /\ sitemap_urls = {}
     /\ Results = visited_urls) =>
        Results = {HomeNoSlash, Page("a"), Page("b")}

\* C9: a crawl of a base URL that is not a well-formed absolute URL does not
\* return normally.
C9_InvalidBaseIsError == ~WellFormed(cfg.base_url) => pc # "done"

\* C10: every URL in the result list has an empty network location or the
\* base domain.
C10_ResultsSameDomain ==
    \A url \in Results : url.netloc = "" \/ url.netloc = base_domain

C10_Witness ==
    /\ pc = "done"
    /\ External \in Anchors(HomeNoSlash)
    /\ \E i \in 1..Len(units) :
         /\ units[i].depth = 1
         /\ units[i].url \in Results
    /\ \E i \in 1..Len(units) :
         /\ units[i].depth = 0
         /\ units[i].url \in sitemap_urls
         /\ units[i].url \in Results

\* rounds that dequeued a batch and dispatched nothing from it
FilteredRounds == {k \in 1..round : \A i \in 1..Len(units) : units[i].round # k}

\* C11: no URL that ends in a denylisted extension is in the result list.
C11_NoDenylistedResult == \A url \in Results : ~EndsWithExt(url)

C11_Witness ==
    /\ cfg.site = Rich
    /\ \E i \in 1..Len(units) :
         /\ units[i].depth = 0
         /\ units[i].url.path = ""
         /\ units[i].html
         /\ units[i].st = "done"
         /\ max_depth >= 1
    /\ \E i \in 1..Len(units) : units[i].depth = 1 /\ units[i].url \in Results

\* C12 (as claimed): a round whose non-empty batch is entirely filtered out is
\* the last round of the crawl.
C12_FilteredRoundIsLast == \A k \in FilteredRounds : k = round

\* C12 (amended): the crawl returns only with the frontier empty; a round that
\* dispatches nothing is followed by further rounds while entries remain.
C12_ReturnsOnlyOnEmptyFrontier == pc = "done" => urls_to_visit = <<>>

C12_Witness ==
    /\ pc = "done"
    /\ \E k \in FilteredRounds : \E i \in 1..Len(units) : units[i].round > k

\* C13: an entry dispatched in an earlier round never has a larger depth than
\* an entry dispatched in a later round.
C13_BreadthFirstLayering ==
    \A i, j \in 1..Len(units) :
        units[i].round < units[j].round => units[i].depth <= units[j].depth

IsPrefix(s, t) == Len(s) <= Len(t) /\ SubSeq(t, 1, Len(s)) = s

\* the units a step creates
NewUnits == (Len(units) + 1)..Len(units')

\* C14: a round dequeues at most min(max_tasks, frontier size) entries from the
\* front of the frontier as it stood at round start, and only when every unit
\* dispatched before has completed; between round starts the frontier only
\* grows at its tail, so what a unit of round k enqueues is dequeued by a
\* later round.
C14_RoundBarrier ==
    [][/\ round' # round =>
            /\ round' = round + 1
            /\ \A i \in 1..Len(units) : units[i].st = "done"
            /\ \E n \in 1..Min(max_tasks, Len(urls_to_visit)) :
                  /\ urls_to_visit' = SubSeq(urls_to_visit, n + 1, Len(urls_to_visit))
                  /\ \A i \in NewUnits :
                        /\ units'[i].round = round'
                        /\ <<units'[i].url, units'[i].depth>> \in
                              Range(SubSeq(urls_to_visit, 1, n))
       /\ (round' = round /\ pc # "sitemap") =>
            /\ IsPrefix(urls_to_visit, urls_to_visit')
            /\ urls_to_visit' # urls_to_visit => pc = "gather"
            /\ NewUnits = {}
      ]_vars

C14_Witness ==
    /\ pc = "gather"
    /\ round >= 2
    /\ urls_to_visit # <<>>
    /\ \E i \in 1..Len(units) :
         /\ units[i].round = round
         /\ units[i].depth = 1
         /\ units[i].st = "fetching"
    /\ \E k \in 1..Len(urls_to_visit) : urls_to_visit[k][2] = 2

\* C15: visited_urls only grows, and every unit is dispatched for a URL that
\* is not in visited_urls at the moment of dispatch.
C15_VisitedNeverRedispatched ==
    [][/\ visited_urls \subseteq visited_urls'
       /\ \A i \in NewUnits : units'[i].url \notin visited_urls
      ]_vars

C15_Witness ==
    /\ max_depth >= 0
    /\ pc = "gather"
    /\ visited_urls # {}
    /\ \E k \in FilteredRounds : k < round

\* C16: a unit whose fetch returned no content completes without raising,
\* appends nothing, enqueues nothing, leaves crawl() and the other units as
\* they are, and its URL is never dispatched again.
C16_FailedFetchIsLocal ==
    [][/\ \A i \in 1..Len(units) :
            (units[i].st = "fetching" /\ units'[i].st \in {"done", "raised"}
                /\ ~units'[i].html) =>
                /\ units'[i].st = "done"
                /\ result_urls' = result_urls
                /\ urls_to_visit' = urls_to_visit
                /\ pc' = pc
                /\ \A j \in 1..Len(units) : j # i => units'[j] = units[j]
       /\ \A i \in NewUnits : \A j \in 1..Len(units) :
            (units[j].st = "done" /\ ~units[j].html) => units'[i].url # units[j].url
      ]_vars

C16_Witness ==
    /\ pc = "done"
    /\ \E i, j \in 1..Len(units) :
         /\ units[i].st = "done"
         /\ ~units[i].html
         /\ units[i].depth < max_depth
         /\ Anchors(units[i].url) # {}
         /\ units[j].round > units[i].round
         /\ units[j].html

\* C17: no unit raises on a malformed anchor and crawl() does not end with
\* an exception.
C17_MalformedAnchorSkipped ==
    /\ \A i \in 1..Len(units) : units[i].st # "raised"
    /\ pc # "error"

\* C18: a crawl that has not returned can always take a further step, so it
\* runs on until the loop exits.
C18_RunsToCompletion == pc = "done" \/ ENABLED <<Next>>_vars

\* the links a fetched page contributes
Succ(url) == parse_links(Anchors(url), url)

RECURSIVE Within(_)
\* the URLs at link distance <= d from the seed set
Within(d) ==
    IF d < 0 THEN {}
    ELSE IF d = 0 THEN SeedSet(sitemap_loaded, sitemap_urls)
    ELSE LET W == Within(d - 1) IN W \cup UNION {Succ(url) : url \in W}

\* C19: when every fetch returned content and robots.txt disallows nothing,
\* every served URL within max_depth links of the seeds is in the final
\* result list.
C19_DepthBoundedComplete ==
    (/\ pc = "done"
     /\ max_tasks >= 1
     /\ cfg.robots.disallow = {}
     /\ \A i \in 1..Len(units) : units[i].html) =>
        \A url \in Within(max_depth) : Served(url) => url \in Results

\* C20: with max_tasks = 1 every round dispatches at most one unit, no URL is
\* dispatched twice and no URL is twice in the result list.
C20_ExactDedupSingleTask ==
    max_tasks = 1 =>
        /\ \A i, j \in 1..Len(units) :
              i # j => units[i].url # units[j].url /\ units[i].round # units[j].round
        /\ \A i, j \in 1..Len(result_urls) : i # j => result_urls[i] # result_urls[j]

C20_Witness ==
    /\ max_tasks = 1
    /\ max_depth >= 0
    /\ pc = "done"
    /\ FilteredRounds # {}
    /\ Len(result_urls) >= 2

====
